---- MODULE Spec2Model ----
(***************************************************************************)
(* Model of boule's TriaxialEllipsoid (src/boule/_triaxialellipsoid.py):   *)
(* an attrs class declared with @attr.s(frozen=True).  The generated       *)
(* __init__ assigns all eight attributes and then runs the validators in   *)
(* the order in which the attributes are declared.  Numbers are modelled   *)
(* as exact rationals <<numerator, denominator>>; the value of a square    *)
(* root is kept exactly as coef * sqrt(root) with root squarefree.         *)
(***************************************************************************)
EXTENDS Integers, Sequences, FiniteSets, TLC

VARIABLES pc, args, obj, raised, warnings, call, ret

vars == <<pc, args, obj, raised, warnings, call, ret>>

(* ----------------------------- bounds ---------------------------------- *)

MaxAxis == 3

MaxNeg == 1

MaxLen == 2

AxisValues == (0 - MaxNeg)..MaxAxis

GMValues == {-1, 0, 1}

OmegaValues == {1}

Names == {"VESTA"}

LongNames == {"Vesta Triaxial Ellipsoid"}

References == {"Russell2012"}

Angles == {0, 45, 90}

(* ------------------------ exact arithmetic ----------------------------- *)

Abs(x) == IF x < 0 THEN 0 - x ELSE x

RECURSIVE GCD(_, _)
GCD(m, n) == IF n = 0 THEN m ELSE GCD(n, m % n)

Norm(n, d) ==
    LET g == GCD(Abs(n), Abs(d))
        s == IF d < 0 THEN 0 - 1 ELSE 1
    IN  <<(s * n) \div g, (s * d) \div g>>

Q(n) == <<n, 1>>

RAdd(x, y) == Norm(x[1] * y[2] + y[1] * x[2], x[2] * y[2])

RSub(x, y) == Norm(x[1] * y[2] - y[1] * x[2], x[2] * y[2])

RMul(x, y) == Norm(x[1] * y[1], x[2] * y[2])

RDiv(x, y) == Norm(x[1] * y[2], x[2] * y[1])

RSq(x) == RMul(x, x)

RLess(x, y) == x[1] * y[2] < y[1] * x[2]

RAbs(x) == <<Abs(x[1]), x[2]>>

RECURSIVE SqPartFrom(_, _, _)
SqPartFrom(n, s, best) ==
    IF s * s > n THEN best
    ELSE SqPartFrom(n, s + 1, IF n % (s * s) = 0 THEN s ELSE best)

SqPart(n) == SqPartFrom(n, 1, 1)

(* np.sqrt of a rational x = n/d: coef * sqrt(root), root squarefree.      *)
(* root = 0 stands for sqrt(0) and root = -1 for nan (negative operand).   *)
Sqrt(x) ==
    IF x[1] < 0 THEN [coef |-> Q(0), root |-> 0 - 1]
    ELSE IF x[1] = 0 THEN [coef |-> Q(0), root |-> 0]
    ELSE LET s1 == SqPart(x[1])
             k1 == x[1] \div (s1 * s1)
             s2 == SqPart(x[2])
             k2 == x[2] \div (s2 * s2)
         IN  [coef |-> Norm(s1, s2 * k2), root |-> k1 * k2]

(* x / (coef * sqrt(root)) for a rational x: nan stays nan, a zero divisor *)
(* gives inf (root 0 with the sign of x as coefficient).                   *)
DivBySqrt(x, r) ==
    IF r.root < 0 THEN r
    ELSE IF r.root = 0
         THEN [coef |-> Q(IF x[1] < 0 THEN 0 - 1 ELSE IF x[1] = 0 THEN 0 ELSE 1),
               root |-> IF x[1] = 0 THEN 0 - 1 ELSE 0]
    ELSE [coef |-> RDiv(x, RMul(r.coef, Q(r.root))), root |-> r.root]

(* np.cos(np.radians(d)) ** 2 for an angle of d degrees.                   *)
Cos2Deg(d) ==
    LET m == d % 180
    IN  CASE m = 0 -> <<1, 1>>
          [] m \in {30, 150} -> <<3, 4>>
          [] m \in {45, 135} -> <<1, 2>>
          [] m \in {60, 120} -> <<1, 4>>
          [] m = 90 -> <<0, 1>>

(* np.sin(np.radians(d)) ** 2                                              *)
Sin2Deg(d) == Cos2Deg(d - 90)

(* --------------------------- the class --------------------------------- *)

Fields ==
    <<"name", "semimajor_axis", "semimedium_axis", "semiminor_axis",
      "geocentric_grav_const", "angular_velocity", "long_name", "reference">>

None == "None"

NoError == [exc |-> "", msg |-> "", axis |-> "", value |-> <<>>]

InvalidParameter(axis, value) ==
    [exc |-> "ValueError", msg |-> "Should be greater than zero",
     axis |-> axis, value |-> <<value>>]

_raise_invalid_axis(self) ==
    [exc |-> "ValueError", msg |-> "Must be major > medium > minor",
     axis |-> "triaxial ellipsoid axis",
     value |-> <<self.semimajor_axis, self.semimedium_axis, self.semiminor_axis>>]

FrozenInstanceError ==
    [exc |-> "FrozenInstanceError", msg |-> "", axis |-> "", value |-> <<>>]

Outcome(err, warns) == [raised |-> err, warned |-> warns]

Passed == Outcome(NoError, <<>>)

_check_semimajor_axis_strict(self, value) ==
    IF ~(value > 0) THEN Outcome(InvalidParameter("semi-major", value), <<>>)
    ELSE IF self.semimedium_axis >= value
         THEN Outcome(_raise_invalid_axis(self), <<>>)
    ELSE Passed

_check_semimajor_axis_unordered(self, value) ==
    IF ~(value > 0) THEN Outcome(InvalidParameter("semi-major", value), <<>>)
    ELSE Passed

_check_semimajor_axis(self, value) ==
    IF ~(value > 0) THEN Outcome(InvalidParameter("semi-major", value), <<>>)
    ELSE IF self.semimedium_axis > value
         THEN Outcome(_raise_invalid_axis(self), <<>>)
    ELSE Passed

_check_semimedium_axis_swapped(self, value) ==
    IF self.semiminor_axis > value
    THEN Outcome(_raise_invalid_axis(self), <<>>)
    ELSE IF ~(value > 0)
         THEN Outcome(InvalidParameter("semi-medium", value), <<>>)
    ELSE Passed

_check_semimedium_axis(self, value) ==
    IF ~(value > 0) THEN Outcome(InvalidParameter("semi-medium", value), <<>>)
    ELSE IF self.semiminor_axis > value
         THEN Outcome(_raise_invalid_axis(self), <<>>)
    ELSE Passed

_check_semiminor_axis_unchecked(self, value) == Passed

_check_semiminor_axis(self, value) ==
    IF ~(value > 0) THEN Outcome(InvalidParameter("semi-minor", value), <<>>)
    ELSE Passed

NegativeGMWarning(value) ==
    [category |-> "UserWarning",
     msg |-> "The geocentric gravitational constant is negative",
     value |-> value]

_check_geocentric_grav_const_nonpositive(self, value) ==
    IF value <= 0 THEN Outcome(NoError, <<NegativeGMWarning(value)>>)
    ELSE Passed

_check_geocentric_grav_const(self, value) ==
    IF value < 0 THEN Outcome(NoError, <<NegativeGMWarning(value)>>)
    ELSE Passed

(* The attributes that carry a validator, in declaration order.            *)
ValidatedGMFirst ==
    <<"geocentric_grav_const", "semimajor_axis", "semimedium_axis",
      "semiminor_axis">>

Validated ==
    <<"semimajor_axis", "semimedium_axis", "semiminor_axis",
      "geocentric_grav_const">>

Validate(self, attribute) ==
    CASE attribute = "semimajor_axis" ->
             _check_semimajor_axis(self, self.semimajor_axis)
      [] attribute = "semimedium_axis" ->
             _check_semimedium_axis(self, self.semimedium_axis)
      [] attribute = "semiminor_axis" ->
             _check_semiminor_axis(self, self.semiminor_axis)
      [] attribute = "geocentric_grav_const" ->
             _check_geocentric_grav_const(self, self.geocentric_grav_const)

(* Run the validators from position i on; the first exception ends the     *)
(* run, warnings issued before it stay issued.                             *)
RECURSIVE RunValidators(_, _, _)
RunValidators(self, i, warns) ==
    IF i > Len(Validated) THEN Outcome(NoError, warns)
    ELSE LET o == Validate(self, Validated[i])
         IN  IF o.raised # NoError THEN Outcome(o.raised, warns \o o.warned)
             ELSE RunValidators(self, i + 1, warns \o o.warned)

(* An optional keyword argument is <<>> when omitted and <<v>> when given. *)
Default(kw, dflt) == IF kw = <<>> THEN dflt ELSE kw[1]

(* The attributes __init__ assigns before any validator runs.              *)
Assigned(a) ==
    [name |-> a.name,
     semimajor_axis |-> a.semimajor_axis,
     semimedium_axis |-> a.semimedium_axis,
     semiminor_axis |-> a.semiminor_axis,
     geocentric_grav_const |-> a.geocentric_grav_const,
     angular_velocity |-> a.angular_velocity,
     long_name |-> Default(a.long_name, None),
     reference |-> Default(a.reference, None)]

Self == obj[1]

(* mean_radius property                                                    *)
mean_radius(self) ==
    RDiv(Q(self.semimajor_axis + self.semimedium_axis + self.semiminor_axis),
         Q(3))

(* volume property, as the rational multiple of pi                         *)
volume(self) ==
    [pi |-> RMul(RMul(RMul(RDiv(Q(4), Q(3)), Q(self.semimajor_axis)),
                      Q(self.semimedium_axis)),
                 Q(self.semiminor_axis))]

FlatteningAsRatio(a, x) == RDiv(Q(x), Q(a))

(* f1 = (a - c) / a and f2 = (a - b) / a                                   *)
Flattening(a, x) == RDiv(RSub(Q(a), Q(x)), Q(a))

(* The numerator of the radius: a * (1.0 - f1) * (1.0 - f2)                *)
Numerator(a, f1, f2) ==
    RMul(RMul(Q(a), RSub(Q(1), f1)), RSub(Q(1), f2))

(* The operand of np.sqrt                                                  *)
Radicand(f1, f2, coslat2, sinlat2, coslon2) ==
    RSub(RSub(RSub(Q(1),
                   RMul(RSub(RMul(Q(2), f1), RSq(f1)), coslat2)),
              RMul(RSub(RMul(Q(2), f2), RSq(f2)), sinlat2)),
         RMul(RMul(RMul(RSq(RSub(Q(1), f1)),
                        RSub(RMul(Q(2), f2), RSq(f2))),
                   coslat2),
              coslon2))

(* geocentric_radius for one longitude and one latitude, in degrees        *)
radius(self, longitude, latitude, longitude_semimajor_axis) ==
    LET a == self.semimajor_axis
        b == self.semimedium_axis
        c == self.semiminor_axis
        f1 == Flattening(a, c)
        f2 == Flattening(a, b)
    IN  DivBySqrt(Numerator(a, f1, f2),
                  Sqrt(Radicand(f1, f2, Cos2Deg(latitude), Sin2Deg(latitude),
                                Cos2Deg(longitude - longitude_semimajor_axis))))

(* numpy broadcasting of two one-dimensional inputs                        *)
Broadcastable(x, y) == Len(x) = Len(y) \/ Len(x) = 1 \/ Len(y) = 1

BroadcastLen(x, y) == IF Len(x) >= Len(y) THEN Len(x) ELSE Len(y)

At(x, i) == IF Len(x) = 1 THEN x[1] ELSE x[i]

geocentric_radius(self, longitude, latitude, longitude_semimajor_axis) ==
    [i \in 1..BroadcastLen(longitude, latitude) |->
        radius(self, At(longitude, i), At(latitude, i),
               Default(longitude_semimajor_axis, 0))]

(* --------------------------- behaviours -------------------------------- *)

Optional(S) == {<<>>} \cup {<<v>> : v \in S}

ArgSpace ==
    [name : Names,
     semimajor_axis : AxisValues,
     semimedium_axis : AxisValues,
     semiminor_axis : AxisValues,
     geocentric_grav_const : GMValues,
     angular_velocity : OmegaValues,
     long_name : Optional(LongNames),
     reference : Optional(References)]

Arrays == UNION {[1..n -> Angles] : n \in 1..MaxLen}

NoCall == [op |-> "", field |-> "", lon |-> <<>>, lat |-> <<>>, lon_a |-> <<>>]

Init ==
    /\ pc = "new"
    /\ args \in ArgSpace
    /\ obj = <<>>
    /\ raised = NoError
    /\ warnings = <<>>
    /\ call = NoCall
    /\ ret = <<>>

(* The generated __init__: assign every attribute, then validate.          *)
Construct ==
    /\ pc = "new"
    /\ LET self == Assigned(args)
           o == RunValidators(self, 1, <<>>)
       IN  /\ raised' = o.raised
           /\ warnings' = warnings \o o.warned
           /\ obj' = IF o.raised = NoError THEN <<self>> ELSE <<>>
           /\ pc' = IF o.raised = NoError THEN "returned" ELSE "failed"
    /\ call' = [NoCall EXCEPT !.op = "__init__"]
    /\ ret' = <<>>
    /\ UNCHANGED args

FieldValues(f) ==
    CASE f = "name" -> Names \cup {"CERES"}
      [] f \in {"semimajor_axis", "semimedium_axis", "semiminor_axis"} ->
             AxisValues
      [] f = "geocentric_grav_const" -> GMValues
      [] f = "angular_velocity" -> OmegaValues \cup {2}
      [] f \in {"long_name", "reference"} ->
             LongNames \cup References \cup {None}

SetAttrUnfrozen(f, v) ==
    /\ pc = "ready"
    /\ obj' = <<[Self EXCEPT ![f] = v]>>
    /\ raised' = NoError
    /\ call' = [NoCall EXCEPT !.op = "__setattr__", !.field = f]
    /\ ret' = <<>>
    /\ pc' = "returned"
    /\ UNCHANGED <<args, warnings>>

(* ellipsoid.<f> = v on the frozen instance                                *)
SetAttr(f, v) ==
    /\ pc = "ready"
    /\ raised' = FrozenInstanceError
    /\ call' = [NoCall EXCEPT !.op = "__setattr__", !.field = f]
    /\ ret' = <<>>
    /\ pc' = "returned"
    /\ UNCHANGED <<args, obj, warnings>>

MeanRadius ==
    /\ pc = "ready"
    /\ ret' = mean_radius(Self)
    /\ raised' = NoError
    /\ call' = [NoCall EXCEPT !.op = "mean_radius"]
    /\ pc' = "returned"
    /\ UNCHANGED <<args, obj, warnings>>

Volume ==
    /\ pc = "ready"
    /\ ret' = volume(Self)
    /\ raised' = NoError
    /\ call' = [NoCall EXCEPT !.op = "volume"]
    /\ pc' = "returned"
    /\ UNCHANGED <<args, obj, warnings>>

GeocentricRadius(lon, lat, lon_a) ==
    /\ pc = "ready"
    /\ Broadcastable(lon, lat)
    /\ ret' = geocentric_radius(Self, lon, lat, lon_a)
    /\ raised' = NoError
    /\ call' = [NoCall EXCEPT !.op = "geocentric_radius",
                              !.lon = lon, !.lat = lat, !.lon_a = lon_a]
    /\ pc' = "returned"
    /\ UNCHANGED <<args, obj, warnings>>

(* The caller has taken the result (or caught the exception) of the last   *)
(* call on the instance and is free to make the next one.                  *)
Resume ==
    /\ pc = "returned"
    /\ pc' = "ready"
    /\ raised' = NoError
    /\ call' = NoCall
    /\ ret' = <<>>
    /\ UNCHANGED <<args, obj, warnings>>

Next ==
    \/ Construct
    \/ /\ pc = "ready"
       /\ \E i \in 1..Len(Fields) : \E v \in FieldValues(Fields[i]) :
              SetAttr(Fields[i], v)
    \/ MeanRadius
    \/ Volume
    \/ /\ pc = "ready"
       /\ \E lon \in Arrays, lat \in Arrays, lon_a \in Optional(Angles) :
              GeocentricRadius(lon, lat, lon_a)
    \/ Resume

Spec == Init /\ [][Next]_vars

(* ---------------------------- properties ------------------------------ *)

ArgA == args.semimajor_axis

ArgB == args.semimedium_axis

ArgC == args.semiminor_axis

ArgGM == args.geocentric_grav_const

(* The constructor call has just returned or raised.                       *)
AfterInit == call.op = "__init__"

Constructed == obj # <<>>

IsInvalidParameter(e) ==
    e.exc = "ValueError" /\ e.msg = "Should be greater than zero"

IsInvalidAxisOrdering(e) ==
    e.exc = "ValueError" /\ e.msg = "Must be major > medium > minor"

ValidAxes == ArgA >= ArgB /\ ArgB >= ArgC /\ ArgC > 0

AnyNonPositive == ArgA <= 0 \/ ArgB <= 0 \/ ArgC <= 0

Misordered == ArgB > ArgA \/ ArgC > ArgB

C2_ConstructedIffValid ==
    /\ Constructed =>
           /\ Self.semimajor_axis > 0
           /\ Self.semimedium_axis > 0
           /\ Self.semiminor_axis > 0
           /\ Self.semimajor_axis >= Self.semimedium_axis
           /\ Self.semimedium_axis >= Self.semiminor_axis
    /\ (AfterInit /\ ~ValidAxes) =>
           (raised # NoError /\ pc = "failed" /\ ~Constructed)

C2_Witness ==
    /\ AfterInit
    /\ ArgA >= ArgB
    /\ ArgB > 0
    /\ ArgC <= 0
    /\ pc = "failed"
    /\ ~Constructed

(* C3 as stated: any axis <= 0 makes the constructor fail with the         *)
(* 'Should be greater than zero' error and never with the ordering error.  *)
C3_Original ==
    (AfterInit /\ AnyNonPositive) => IsInvalidParameter(raised)

(* C3 amended: any axis <= 0 makes the constructor fail; the error is the  *)
(* 'Should be greater than zero' error except when semimajor_axis > 0 and  *)
(* semimedium_axis > semimajor_axis, where it is the ordering error.       *)
C3_NonPositiveFails ==
    (AfterInit /\ AnyNonPositive) =>
        /\ pc = "failed"
        /\ ~Constructed
        /\ IF ArgA > 0 /\ ArgB > ArgA
           THEN IsInvalidAxisOrdering(raised)
           ELSE IsInvalidParameter(raised)

C3_Witness ==
    /\ AfterInit
    /\ ArgA > 0
    /\ ArgB <= 0
    /\ ArgC > ArgB
    /\ IsInvalidParameter(raised)
    /\ raised.axis = "semi-medium"

(* C4 as stated: medium > major or minor > medium makes the constructor    *)
(* fail with the ordering error and never with the non-positive error.     *)
C4_Original ==
    (AfterInit /\ Misordered) => IsInvalidAxisOrdering(raised)

(* C4 amended: medium > major or minor > medium makes the constructor      *)
(* fail; the error is the ordering error when semimajor_axis > 0 and       *)
(* (semimedium_axis > semimajor_axis or semimedium_axis > 0), and the      *)
(* non-positive error otherwise.                                           *)
C4_MisorderedFails ==
    (AfterInit /\ Misordered) =>
        /\ pc = "failed"
        /\ ~Constructed
        /\ IF ArgA > 0 /\ (ArgB > ArgA \/ ArgB > 0)
           THEN IsInvalidAxisOrdering(raised)
           ELSE IsInvalidParameter(raised)

C4_Witness ==
    /\ AfterInit
    /\ ArgA > 0
    /\ ArgB > ArgA
    /\ ArgC > 0
    /\ ArgC <= ArgB
    /\ IsInvalidAxisOrdering(raised)
    /\ raised.value = <<ArgA, ArgB, ArgC>>

(* The stored attributes are the arguments of the constructor call, an     *)
(* omitted long_name or reference being stored as None.                    *)
StoredAsGiven ==
    /\ Self.name = args.name
    /\ Self.semimajor_axis = ArgA
    /\ Self.semimedium_axis = ArgB
    /\ Self.semiminor_axis = ArgC
    /\ Self.geocentric_grav_const = ArgGM
    /\ Self.angular_velocity = args.angular_velocity
    /\ Self.long_name = (IF args.long_name = <<>> THEN None
                         ELSE args.long_name[1])
    /\ Self.reference = (IF args.reference = <<>> THEN None
                         ELSE args.reference[1])

(* C5: with valid axes a negative geocentric_grav_const does not stop the  *)
(* constructor: it returns an instance whose attributes are the arguments, *)
(* having issued one warning that carries the value; with a value >= 0 no  *)
(* warning is issued.                                                      *)
C5_NegativeGMWarns ==
    (AfterInit /\ ValidAxes) =>
        /\ raised = NoError
        /\ Constructed
        /\ StoredAsGiven
        /\ ArgGM < 0 =>
               (Len(warnings) = 1 /\ warnings[1].value = ArgGM)
        /\ ArgGM >= 0 => warnings = <<>>

C5_Witness ==
    /\ AfterInit
    /\ ValidAxes
    /\ ArgGM < 0
    /\ Constructed
    /\ Len(warnings) = 1

(* C6: whatever operations are applied to an instance, its eight           *)
(* attributes stay the ones given to the constructor; an assignment to an  *)
(* attribute raises FrozenInstanceError and returns nothing.               *)
C6_Frozen ==
    Constructed =>
        /\ StoredAsGiven
        /\ call.op = "__setattr__" =>
               (raised = FrozenInstanceError /\ ret = <<>>)
        /\ call.op \in {"mean_radius", "volume", "geocentric_radius"} =>
               raised = NoError

C6_Witness ==
    /\ Constructed
    /\ call.op = "__setattr__"
    /\ call.field = "semimajor_axis"
    /\ raised = FrozenInstanceError
    /\ StoredAsGiven

(* C7: the three semi-axes of an instance are pairwise different,          *)
(* major > medium > minor.                                                 *)
C7_AxesDiffer ==
    Constructed =>
        /\ Self.semimajor_axis > Self.semimedium_axis
        /\ Self.semimedium_axis > Self.semiminor_axis

IsSphere ==
    /\ Self.semimajor_axis = Self.semimedium_axis
    /\ Self.semimedium_axis = Self.semiminor_axis

(* C8: on an instance with three equal axes R, geocentric_radius returns   *)
(* exactly R at every longitude and latitude and for every                 *)
(* longitude_semimajor_axis.                                               *)
C8_SphereRadius ==
    (Constructed /\ call.op = "geocentric_radius" /\ IsSphere) =>
        \A i \in DOMAIN ret :
            ret[i] = [coef |-> Q(Self.semimajor_axis), root |-> 1]

C8_Witness ==
    /\ Constructed
    /\ call.op = "geocentric_radius"
    /\ IsSphere
    /\ Self.semimajor_axis > 1
    /\ call.lon = <<0, 45>>
    /\ call.lat = <<45, 90>>
    /\ call.lon_a = <<90>>
    /\ Len(ret) = 2

Distance(r, x) == RAbs(RSub(r.coef, Q(x)))

(* C9: on every instance whose axes are not all equal,                     *)
(* geocentric_radius([0, 90], [0, 0]) with the default                     *)
(* longitude_semimajor_axis returns two different values, the second being *)
(* semimedium_axis and the first being closer to semimajor_axis.           *)
C9_TwoDistinctRadii ==
    ( /\ Constructed
      /\ call.op = "geocentric_radius"
      /\ call.lon = <<0, 90>>
      /\ call.lat = <<0, 0>>
      /\ call.lon_a = <<>>
      /\ ~IsSphere ) =>
        /\ ret[1] # ret[2]
        /\ ret[1].root = 1
        /\ ret[2] = [coef |-> Q(Self.semimedium_axis), root |-> 1]
        /\ RLess(Distance(ret[1], Self.semimajor_axis),
                 Distance(ret[2], Self.semimajor_axis))

(* The error of the first failing check in the order                       *)
(* major <= 0, medium > major, medium <= 0, minor > medium, minor <= 0.    *)
FirstFailingCheck ==
    IF ArgA <= 0 THEN InvalidParameter("semi-major", ArgA)
    ELSE IF ArgB > ArgA THEN
        [exc |-> "ValueError", msg |-> "Must be major > medium > minor",
         axis |-> "triaxial ellipsoid axis", value |-> <<ArgA, ArgB, ArgC>>]
    ELSE IF ArgB <= 0 THEN InvalidParameter("semi-medium", ArgB)
    ELSE IF ArgC > ArgB THEN
        [exc |-> "ValueError", msg |-> "Must be major > medium > minor",
         axis |-> "triaxial ellipsoid axis", value |-> <<ArgA, ArgB, ArgC>>]
    ELSE IF ArgC <= 0 THEN InvalidParameter("semi-minor", ArgC)
    ELSE NoError

(* C10: the constructor raises the error of the first failing check in     *)
(* the fixed order, each error carrying the argument values; the warning   *)
(* for a negative geocentric_grav_const is issued only when all five       *)
(* checks pass, so a failed construction has issued no warning.            *)
C10_CheckOrder ==
    AfterInit =>
        /\ raised = FirstFailingCheck
        /\ raised # NoError => (warnings = <<>> /\ ~Constructed)
        /\ raised = NoError => (Len(warnings) = 1 <=> ArgGM < 0)

C10_Witness ==
    /\ AfterInit
    /\ ArgA > 0
    /\ ArgB > ArgA
    /\ ArgC <= 0
    /\ ArgGM < 0
    /\ IsInvalidAxisOrdering(raised)
    /\ warnings = <<>>

====
